---- MODULE Spec2Model ----
(***************************************************************************)
(* Verification model of provide.cicd.conform (src/src/provide/cicd/       *)
(* conform.py): the header/footer conformance engine and its CLI entry.    *)
(*                                                                         *)
(* A file's text is a sequence of physical lines plus a flag telling       *)
(* whether the last line is newline-terminated.  A physical line is a      *)
(* triple <<o, t, c>>: o says the line begins with the token """, t is the *)
(* text between, c says the line ends with the token """.  Texts are drawn *)
(* from a fixed vocabulary; the predicates Python evaluates on a line      *)
(* (startswith, ==, `emoji in line`, tokenisation) are tabulated per text. *)
(***************************************************************************)
EXTENDS Integers, Sequences, FiniteSets, TLC

\* ------------------------------------------------------------------------
\* Bounds of the model
\* ------------------------------------------------------------------------

\* the input file is a concatenation of at most MaxSegs segments
MaxSegs == 3
\* number of consecutive conform_file calls on the same path
MaxCalls == 2

\* ------------------------------------------------------------------------
\* Vocabulary of line texts
\* ------------------------------------------------------------------------

T_BLANK == ""
T_SH == "#!/bin/sh"
T_SPDX1 == "# SPDX-FileCopyrightText: Copyright (c) 2025 provide.io llc. All rights reserved."
T_SPDX2 == "# SPDX-License-Identifier: Apache-2.0"
T_HASH == "#"
T_TODO == "TODO: Add module docstring."
T_DOC == "Doc."
T_STMT == "x = 1"
T_GSTMT == "ok = '<white-check-mark>'"
T_COMMENT == "# note"
T_BAD == "x = ("
\* footer strings: a registry footer, the default marker, a glyph-free override
F_REGISTRY == "# <snake><plug><end>"
F_DEFAULT == "# <end>"
F_PLAIN == "# END"

HEADER_SHEBANG == "#!/usr/bin/env python3"
HEADER_LIBRARY == "# "

Line(o, t, c) == <<o, t, c>>
Plain(t) == Line(FALSE, t, FALSE)
BLANK == Plain(T_BLANK)

SPDX_BLOCK == <<Plain(T_SPDX1), Plain(T_SPDX2), Plain(T_HASH)>>
PLACEHOLDER_DOCSTRING == <<Line(TRUE, T_TODO, TRUE)>>

\* the catalog of footer glyphs
FOOTER_EMOJIS ==
    {"<construction>", "<snake>", "<brick>", "<bee>", "<folder>", "<plate>",
     "<book>", "<test-tube>", "<white-check-mark>", "<puzzle>", "<wrench>",
     "<wave>", "<knot>", "<plug>", "<telephone>", "<page>", "<gear>", "<bowl>",
     "<microscope>", "<up-button>", "<hot-pepper>", "<package>", "<toolbox>",
     "<globe>", "<wand>", "<end>"}

\* the glyphs occurring in a text
GlyphsOf(t) ==
    CASE t = F_REGISTRY -> {"<snake>", "<plug>", "<end>"}
      [] t = F_DEFAULT -> {"<end>"}
      [] t = T_GSTMT -> {"<white-check-mark>"}
      [] OTHER -> {}

\* a test for the canonical directive only
StartsWithCanonicalShebang(l) == ~l[1] /\ l[2] = HEADER_SHEBANG

\* str.startswith("#!") on a stripped line
StartsWithShebang(l) == ~l[1] /\ l[2] \in {HEADER_SHEBANG, T_SH}
\* a pattern that matches the copyright line only
StartsWithSpdxFileCopyright(l) == ~l[1] /\ l[2] = T_SPDX1

\* str.startswith("# SPDX-")
StartsWithSpdx(l) == ~l[1] /\ l[2] \in {T_SPDX1, T_SPDX2}
\* line.strip() == "#"
IsBareHash(l) == ~l[1] /\ ~l[3] /\ l[2] \in {T_HASH, HEADER_LIBRARY}
\* line.strip() == '"""TODO: Add module docstring."""'
IsPlaceholderLine(l) == l = Line(TRUE, T_TODO, TRUE)
\* line.strip() == ""
IsBlankLine(l) == l = BLANK

\* texts that are a comment when tokenised as code
CommentTexts ==
    {HEADER_SHEBANG, T_SH, HEADER_LIBRARY, T_HASH, T_SPDX1, T_SPDX2, T_COMMENT,
     F_REGISTRY, F_DEFAULT, F_PLAIN}
\* texts that are one complete simple statement
StatementTexts == {T_STMT, T_GSTMT}

\* ------------------------------------------------------------------------
\* String helpers on sequences of lines
\* ------------------------------------------------------------------------

RECURSIVE DropTrailingBlank(_)
DropTrailingBlank(ls) ==
    IF ls # <<>> /\ ls[Len(ls)] = BLANK
    THEN DropTrailingBlank(SubSeq(ls, 1, Len(ls) - 1))
    ELSE ls

\* str.rstrip() of a text held as lines without final newline: trailing blank
\* lines go, and so does trailing white space of the last line
RStrip(ls) ==
    LET d == DropTrailingBlank(ls)
    IN  IF d # <<>> /\ d[Len(d)] = Plain(HEADER_LIBRARY)
        THEN SubSeq(d, 1, Len(d) - 1) \o <<Plain(T_HASH)>>
        ELSE d

RECURSIVE DropLeadingBlankText(_)
DropLeadingBlankText(ts) ==
    IF ts # <<>> /\ ts[1] = T_BLANK THEN DropLeadingBlankText(Tail(ts)) ELSE ts

RECURSIVE DropTrailingBlankText(_)
DropTrailingBlankText(ts) ==
    IF ts # <<>> /\ ts[Len(ts)] = T_BLANK
    THEN DropTrailingBlankText(SubSeq(ts, 1, Len(ts) - 1))
    ELSE ts

\* inspect.cleandoc on a string value held as its lines: no text of the
\* vocabulary is indented, so only the blank first and last lines are removed
cleandoc(ts) == DropLeadingBlankText(DropTrailingBlankText(ts))

\* ------------------------------------------------------------------------
\* find_module_docstring_and_body_start
\* ------------------------------------------------------------------------

\* ast.parse: the top-level statements of the text, or a syntax error.
\* A statement is [line, isStr, val]; val holds the lines of a string value.
RECURSIVE ast_parse(_, _, _, _, _, _)
ast_parse(ls, i, inStr, start, val, body) ==
    IF i > Len(ls)
    THEN IF inStr THEN [ok |-> FALSE, body |-> <<>>] ELSE [ok |-> TRUE, body |-> body]
    ELSE
      LET l == ls[i]
          o == l[1]
          t == l[2]
          c == l[3]
          strStmt(v) == [line |-> start, isStr |-> TRUE, val |-> v]
      IN
      IF inStr
      THEN
        IF o
        THEN \* the leading """ closes the open string; t follows it as code
          IF t = T_BLANK /\ ~c
          THEN ast_parse(ls, i + 1, FALSE, 0, <<>>,
                         Append(body, strStmt(Append(val, T_BLANK))))
          ELSE IF t = T_BLANK /\ c
          THEN \* an adjacent literal opens: implicit concatenation
               ast_parse(ls, i + 1, TRUE, start, Append(val, T_BLANK), body)
          ELSE IF t \in CommentTexts
          THEN ast_parse(ls, i + 1, FALSE, 0, <<>>,
                         Append(body, strStmt(Append(val, T_BLANK))))
          ELSE [ok |-> FALSE, body |-> <<>>]
        ELSE IF c
        THEN ast_parse(ls, i + 1, FALSE, 0, <<>>, Append(body, strStmt(Append(val, t))))
        ELSE ast_parse(ls, i + 1, TRUE, start, Append(val, t), body)
      ELSE
        IF o /\ c
        THEN ast_parse(ls, i + 1, FALSE, 0, <<>>,
                       Append(body, [line |-> i, isStr |-> TRUE, val |-> <<t>>]))
        ELSE IF o
        THEN ast_parse(ls, i + 1, TRUE, i, <<t>>, body)
        ELSE IF c
        THEN IF t \in CommentTexts
             THEN ast_parse(ls, i + 1, FALSE, 0, <<>>, body)
             ELSE [ok |-> FALSE, body |-> <<>>]
        ELSE IF t = T_BLANK \/ t \in CommentTexts
        THEN ast_parse(ls, i + 1, FALSE, 0, <<>>, body)
        ELSE IF t \in StatementTexts
        THEN ast_parse(ls, i + 1, FALSE, 0, <<>>,
                       Append(body, [line |-> i, isStr |-> FALSE, val |-> <<>>]))
        ELSE [ok |-> FALSE, body |-> <<>>]

NoDocstring == [has |-> FALSE, val |-> <<>>]

\* the body starts at the first statement, docstring or not
find_module_docstring_at_first_statement(ls) ==
    LET tree == ast_parse(ls, 1, FALSE, 0, <<>>, <<>>)
    IN  IF ~tree.ok
        THEN [doc |-> NoDocstring, start |-> 1]
        ELSE IF tree.body = <<>>
        THEN [doc |-> NoDocstring, start |-> Len(ls) + 1]
        ELSE [doc |-> IF tree.body[1].isStr
                      THEN [has |-> TRUE, val |-> cleandoc(tree.body[1].val)]
                      ELSE NoDocstring,
              start |-> tree.body[1].line]

\* a text that does not parse is given an empty body
find_module_docstring_parse_error_empty(ls) ==
    LET tree == ast_parse(ls, 1, FALSE, 0, <<>>, <<>>)
    IN  IF ~tree.ok
        THEN [doc |-> NoDocstring, start |-> Len(ls) + 1]
        ELSE IF tree.body = <<>>
        THEN [doc |-> NoDocstring, start |-> Len(ls) + 1]
        ELSE
          LET first_node == tree.body[1]
          IN  IF first_node.isStr
              THEN [doc |-> [has |-> TRUE, val |-> cleandoc(first_node.val)],
                    start |-> IF Len(tree.body) > 1 THEN tree.body[2].line
                              ELSE Len(ls) + 1]
              ELSE [doc |-> NoDocstring, start |-> first_node.line]

\* returns [doc, start]: the docstring (or none) and the 1-based body start line
find_module_docstring_and_body_start(ls) ==
    LET tree == ast_parse(ls, 1, FALSE, 0, <<>>, <<>>)
    IN  IF ~tree.ok
        THEN [doc |-> NoDocstring, start |-> 1]
        ELSE IF tree.body = <<>>
        THEN [doc |-> NoDocstring, start |-> Len(ls) + 1]
        ELSE
          LET first_node == tree.body[1]
          IN  IF first_node.isStr
              THEN [doc |-> [has |-> TRUE, val |-> cleandoc(first_node.val)],
                    start |-> IF Len(tree.body) > 1 THEN tree.body[2].line
                              ELSE Len(ls) + 1]
              ELSE [doc |-> NoDocstring, start |-> first_node.line]

\* ------------------------------------------------------------------------
\* _clean_header_lines
\* ------------------------------------------------------------------------

\* the flag stays set after a swallowed blank line: the whole run of blank
\* lines after a removed line goes
RECURSIVE clean_loop_swallow_all(_, _, _, _)
clean_loop_swallow_all(ls, i, skip_next_empty, cleaned_lines) ==
    IF i > Len(ls)
    THEN cleaned_lines
    ELSE
      LET l == ls[i]
      IN  IF StartsWithShebang(l) \/ StartsWithSpdx(l) \/ IsBareHash(l)
             \/ IsPlaceholderLine(l)
          THEN clean_loop_swallow_all(ls, i + 1, TRUE, cleaned_lines)
          ELSE IF skip_next_empty /\ IsBlankLine(l)
          THEN clean_loop_swallow_all(ls, i + 1, TRUE, cleaned_lines)
          ELSE clean_loop_swallow_all(ls, i + 1, FALSE, Append(cleaned_lines, l))

\* artifact lines are removed in the prologue only: once a line has been
\* kept, every later line is kept
RECURSIVE clean_loop_prologue_only(_, _, _, _)
clean_loop_prologue_only(ls, i, skip_next_empty, cleaned_lines) ==
    IF i > Len(ls)
    THEN cleaned_lines
    ELSE
      LET l == ls[i]
      IN  IF cleaned_lines # <<>>
          THEN clean_loop_prologue_only(ls, i + 1, FALSE, Append(cleaned_lines, l))
          ELSE IF StartsWithShebang(l) \/ StartsWithSpdx(l) \/ IsBareHash(l)
                  \/ IsPlaceholderLine(l)
          THEN clean_loop_prologue_only(ls, i + 1, TRUE, cleaned_lines)
          ELSE IF skip_next_empty /\ IsBlankLine(l)
          THEN clean_loop_prologue_only(ls, i + 1, FALSE, cleaned_lines)
          ELSE clean_loop_prologue_only(ls, i + 1, FALSE, Append(cleaned_lines, l))

RECURSIVE clean_loop(_, _, _, _)
clean_loop(ls, i, skip_next_empty, cleaned_lines) ==
    IF i > Len(ls)
    THEN cleaned_lines
    ELSE
      LET l == ls[i]
      IN  IF StartsWithShebang(l)
          THEN clean_loop(ls, i + 1, TRUE, cleaned_lines)
          ELSE IF StartsWithSpdx(l) \/ IsBareHash(l)
          THEN clean_loop(ls, i + 1, TRUE, cleaned_lines)
          ELSE IF IsPlaceholderLine(l)
          THEN clean_loop(ls, i + 1, TRUE, cleaned_lines)
          ELSE IF skip_next_empty /\ IsBlankLine(l)
          THEN clean_loop(ls, i + 1, FALSE, cleaned_lines)
          ELSE clean_loop(ls, i + 1, FALSE, Append(cleaned_lines, l))

_clean_header_lines(ls) == clean_loop(ls, 1, FALSE, <<>>)

\* ------------------------------------------------------------------------
\* _remove_footer_emojis
\* ------------------------------------------------------------------------

has_footer_emoji(l) == GlyphsOf(l[2]) \cap FOOTER_EMOJIS # {}

NoFooterEmoji(l) == ~has_footer_emoji(l)

\* only the glyph lines at the end of the body are removed
RECURSIVE DropTrailingGlyphLines(_)
DropTrailingGlyphLines(ls) ==
    IF ls # <<>> /\ (has_footer_emoji(ls[Len(ls)]) \/ ls[Len(ls)] = BLANK)
    THEN DropTrailingGlyphLines(SubSeq(ls, 1, Len(ls) - 1))
    ELSE ls

_remove_trailing_footer_emojis(body_content) == RStrip(DropTrailingGlyphLines(body_content))

_remove_footer_emojis(body_content) == RStrip(SelectSeq(body_content, NoFooterEmoji))

\* ------------------------------------------------------------------------
\* _construct_file_content
\* ------------------------------------------------------------------------

\* the text '"""' + docstring + '"""' as physical lines
RenderDocstring(ts) ==
    IF Len(ts) = 0 THEN <<Line(TRUE, T_BLANK, TRUE)>>
    ELSE IF Len(ts) = 1 THEN <<Line(TRUE, ts[1], TRUE)>>
    ELSE <<Line(TRUE, ts[1], FALSE)>>
         \o [k \in 1..(Len(ts) - 2) |-> Plain(ts[k + 1])]
         \o <<Line(FALSE, ts[Len(ts)], TRUE)>>

Text(ls) == [lines |-> ls, nl |-> TRUE]
EmptyText == Text(<<>>)

_construct_file_content(header_first_line, docstring_str, body_content, footer) ==
    LET final_header == <<Plain(header_first_line)>> \o SPDX_BLOCK
    IN  IF body_content # <<>>
        THEN Text(final_header \o <<BLANK>> \o docstring_str \o <<BLANK>>
                  \o body_content \o <<BLANK, Plain(footer)>>)
        ELSE Text(final_header \o <<BLANK>> \o docstring_str
                  \o <<BLANK, Plain(footer)>>)

\* ------------------------------------------------------------------------
\* conform_file
\* ------------------------------------------------------------------------

\* lines[0].strip().startswith("#!")
is_executable(lines) == StartsWithShebang(lines[1])

\* the header always opens with the bare comment marker
header_first_line_library(lines) == HEADER_LIBRARY

header_first_line(lines) ==
    IF is_executable(lines) THEN HEADER_SHEBANG ELSE HEADER_LIBRARY

\* the body is taken from the line after body_start
final_content_body_after_start(lines, footer) ==
    LET cleaned_lines == _clean_header_lines(lines)
        found == find_module_docstring_and_body_start(cleaned_lines)
        docstring_str == IF ~found.doc.has THEN PLACEHOLDER_DOCSTRING
                         ELSE RenderDocstring(found.doc.val)
        body_lines == SubSeq(cleaned_lines, found.start + 1, Len(cleaned_lines))
        body_content == _remove_footer_emojis(RStrip(body_lines))
    IN  _construct_file_content(header_first_line(lines), docstring_str, body_content,
                                footer)

\* the body is the whole cleaned text when the text has no docstring
final_content_whole_cleaned_text(lines, footer) ==
    LET cleaned_lines == _clean_header_lines(lines)
        found == find_module_docstring_and_body_start(cleaned_lines)
        docstring_str == IF ~found.doc.has THEN PLACEHOLDER_DOCSTRING
                         ELSE RenderDocstring(found.doc.val)
        body_lines == IF found.doc.has
                      THEN SubSeq(cleaned_lines, found.start, Len(cleaned_lines))
                      ELSE cleaned_lines
        body_content == _remove_footer_emojis(RStrip(body_lines))
    IN  _construct_file_content(header_first_line(lines), docstring_str, body_content,
                                footer)

\* final_content of the non-empty branch
final_content(lines, footer) ==
    LET cleaned_lines == _clean_header_lines(lines)
        found == find_module_docstring_and_body_start(cleaned_lines)
        docstring_str == IF ~found.doc.has THEN PLACEHOLDER_DOCSTRING
                         ELSE RenderDocstring(found.doc.val)
        body_lines == SubSeq(cleaned_lines, found.start, Len(cleaned_lines))
        body_content == _remove_footer_emojis(RStrip(body_lines))
    IN  _construct_file_content(header_first_line(lines), docstring_str, body_content,
                                footer)

\* the minimal structure without its docstring
empty_file_without_docstring(footer) ==
    Text(<<Plain(HEADER_LIBRARY)>> \o SPDX_BLOCK \o <<BLANK, Plain(footer)>>)

\* final_content of the empty-file branch
empty_file_content(footer) ==
    Text(<<Plain(HEADER_LIBRARY)>> \o SPDX_BLOCK \o <<BLANK>>
         \o PLACEHOLDER_DOCSTRING \o <<BLANK, Plain(footer)>>)

\* Path.write_text under the file's write fault: the new file text, and
\* whether OSError is raised.  "open" fails before the file is touched;
\* "data" fails after open() has truncated the file.
write_text(f, data) ==
    CASE f.fault = "open" -> [text |-> f.text, raised |-> TRUE]
      [] f.fault = "data" -> [text |-> EmptyText, raised |-> TRUE]
      [] OTHER -> [text |-> data, raised |-> FALSE]

\* the read error escapes
read_error_raises(f) == [text |-> f.text, ret |-> "raise", wrote |-> FALSE]

\* lines 261-263: the handler of a failed read_text
read_error(f) == [text |-> f.text, ret |-> "False", wrote |-> FALSE]

\* the comparison with the original content left out: every call writes
conform_file_always_writes(f, footer) ==
    IF f.fault = "read"
    THEN read_error(f)
    ELSE LET final == IF f.text.lines = <<>>
                      THEN empty_file_content(footer)
                      ELSE final_content(f.text.lines, footer)
             w == write_text(f, final)
         IN  [text |-> w.text, ret |-> IF w.raised THEN "False" ELSE "True",
              wrote |-> TRUE]

\* One call conform_file(filepath, footer) on file f.  The result is
\* [text, ret, wrote]: the file text afterwards, the value returned
\* ("True", "False") or "raise" when an exception leaves the function, and
\* whether write_text was called.
conform_file(f, footer) ==
    IF f.fault = "read"
    THEN read_error(f)
    ELSE IF f.text.lines = <<>>
    THEN LET w == write_text(f, empty_file_content(footer))
         IN  [text |-> w.text, ret |-> IF w.raised THEN "raise" ELSE "True",
              wrote |-> TRUE]
    ELSE LET final == final_content(f.text.lines, footer)
         IN  IF final # f.text
             THEN LET w == write_text(f, final)
                  IN  [text |-> w.text, ret |-> IF w.raised THEN "False" ELSE "True",
                       wrote |-> TRUE]
             ELSE [text |-> f.text, ret |-> "False", wrote |-> FALSE]

\* ------------------------------------------------------------------------
\* Footer auto-detection
\* ------------------------------------------------------------------------

\* what `git remote get-url origin` prints, held as tokens: "/" is the path
\* separator, ".git" the repository suffix, "\n" white space
URL_HTTPS == <<"https:", "/", "/", "github.com", "/", "provide-io", "/", "pyvider", ".git", "\n">>
URL_SSH == <<"git@github.com:provide-io", "/", "scratch", "\n">>

WhiteSpace == {"\n", " "}

RECURSIVE lstrip(_, _)
lstrip(s, chars) == IF s # <<>> /\ s[1] \in chars THEN lstrip(Tail(s), chars) ELSE s

RECURSIVE rstrip(_, _)
rstrip(s, chars) ==
    IF s # <<>> /\ s[Len(s)] \in chars THEN rstrip(SubSeq(s, 1, Len(s) - 1), chars) ELSE s

\* str.strip()
strip(s) == lstrip(rstrip(s, WhiteSpace), WhiteSpace)

\* str.split("/")[-1]
RECURSIVE split_last(_)
split_last(s) ==
    IF s = <<>> \/ s[Len(s)] = "/" THEN <<>>
    ELSE Append(split_last(SubSeq(s, 1, Len(s) - 1)), s[Len(s)])

\* str.removesuffix(".git")
removesuffix_git(s) ==
    IF s # <<>> /\ s[Len(s)] = ".git" THEN SubSeq(s, 1, Len(s) - 1) ELSE s

\* the string the tokens spell
RECURSIVE Join(_)
Join(s) == IF s = <<>> THEN "" ELSE Head(s) \o Join(Tail(s))

\* remote_url.rstrip("/").split("/")[-1].removesuffix(".git")
RepoOfUrl(url) == Join(removesuffix_git(split_last(rstrip(url, {"/"}))))

\* the ways subprocess.run(["git", ...], check=True, timeout=5) ends: it
\* returns, or raises one of these exceptions
GitOutcomes ==
    {"ok", "CalledProcessError", "TimeoutExpired", "FileNotFoundError", "PermissionError"}

\* the exceptions the except clause of line 98 names
CaughtByDetect == {"CalledProcessError", "TimeoutExpired", "FileNotFoundError"}

\* Path.cwd().name: the base name, or FileNotFoundError when the working
\* directory no longer exists
cwd_name(e) ==
    IF e.cwd_gone THEN [name |-> "", raised |-> TRUE]
    ELSE [name |-> e.cwd, raised |-> FALSE]

\* e.git is how the query ended and e.remote what it printed.  The result is
\* the name returned, or raised when an exception leaves the function.
detect_repo_name(e) ==
    IF e.git = "ok"
    THEN IF RepoOfUrl(strip(e.remote)) # ""
         THEN [name |-> RepoOfUrl(strip(e.remote)), raised |-> FALSE]
         ELSE cwd_name(e)
    ELSE IF e.git \in CaughtByDetect
    THEN cwd_name(e)
    ELSE [name |-> "", raised |-> TRUE]

\* what footer_registry.json may hold: "missing" (no file), "corrupt" (not
\* JSON), "array" (JSON whose top level is a list), "nokey" (an object
\* without "repositories"), "listvalue" (an object whose "repositories" is a
\* list), "ok" (an object whose "repositories" is the mapping e.repos)
RegistryShapes == {"ok", "missing", "corrupt", "array", "nokey", "listvalue"}

EmptyMapping == [x \in {} |-> ""]

\* The result is the value returned (registry, and whether it is a mapping),
\* whether an exception leaves the function, and whether the warning was
\* written.
load_footer_registry(e) ==
    CASE e.registry \in {"missing", "corrupt"} ->
           [registry |-> EmptyMapping, is_mapping |-> TRUE, raised |-> FALSE,
            warned |-> TRUE]
      [] e.registry = "array" ->
           \* data.get: AttributeError, which the except clause does not name
           [registry |-> EmptyMapping, is_mapping |-> FALSE, raised |-> TRUE,
            warned |-> FALSE]
      [] e.registry = "nokey" ->
           [registry |-> EmptyMapping, is_mapping |-> TRUE, raised |-> FALSE,
            warned |-> FALSE]
      [] e.registry = "listvalue" ->
           [registry |-> EmptyMapping, is_mapping |-> FALSE, raised |-> FALSE,
            warned |-> FALSE]
      [] OTHER ->
           [registry |-> e.repos, is_mapping |-> TRUE, raised |-> FALSE,
            warned |-> FALSE]

\* The result is the footer returned, whether an exception leaves the
\* function, and how often git was run and the registry file was loaded.
get_footer_for_current_repo(e) ==
    LET repo == detect_repo_name(e)
        loaded == load_footer_registry(e)
    IN  IF repo.raised
        THEN [footer |-> "", raised |-> TRUE, git |-> 1, loads |-> 0]
        ELSE IF loaded.raised \/ ~loaded.is_mapping
        THEN \* registry.get on a list: AttributeError
             [footer |-> "", raised |-> TRUE, git |-> 1, loads |-> 1]
        ELSE [footer |-> IF repo.name \in DOMAIN loaded.registry
                         THEN loaded.registry[repo.name] ELSE F_DEFAULT,
              raised |-> FALSE, git |-> 1, loads |-> 1]

\* ------------------------------------------------------------------------
\* State
\* ------------------------------------------------------------------------

VARIABLES
    fs,          \* the files: path -> [text, fault]; a missing path is absent
    footer,      \* the footer in use (conform_file's argument, main's local)
    log,         \* conform_file calls so far: [path, before, after, ret, wrote]
    argv,        \* main: the file name arguments
    footer_opt,  \* main: the --footer option ("" when not given)
    env,         \* main: [git, remote, cwd, cwd_gone, registry, repos]
    pc,          \* main: "idle", "start", "loop", "done", "raised"
    idx,         \* main: position of the loop in argv
    modified,    \* main: local flag
    errors,      \* main: local flag
    exit_code,   \* main: the value returned (-1 while running)
    attempts,    \* main: loop iterations so far: [path, outcome]
    git_queries, \* main: how often `git remote get-url origin` was run
    registry_loads, \* main: how often footer_registry.json was loaded
    repo_name,   \* main: the repository name reported ("" when none is)
    ret,         \* the result of the function called last, [fn |-> "none"] before
    strict,      \* config_check main: the --strict option
    all_valid    \* config_check main: local flag

detectVars == <<git_queries, registry_loads, repo_name, ret>>

checkVars == <<strict, all_valid>>

vars == <<fs, footer, log, argv, footer_opt, env, pc, idx, modified, errors,
          exit_code, attempts, git_queries, registry_loads, repo_name, ret,
          strict, all_valid>>

mainVars == <<argv, footer_opt, env, pc, idx, modified, errors, exit_code, attempts,
              git_queries, registry_loads, repo_name, ret, strict, all_valid>>

NotCalled == [fn |-> "none"]

Footers == {F_REGISTRY, F_DEFAULT, F_PLAIN}
Faults == {"none", "read", "open", "data"}

Segments ==
    { <<Plain(HEADER_SHEBANG)>>, <<Plain(T_SH)>>, SPDX_BLOCK, <<BLANK>>,
      PLACEHOLDER_DOCSTRING, <<Line(TRUE, T_DOC, TRUE)>>,
      <<Line(TRUE, T_BLANK, FALSE)>>, <<Plain(T_DOC)>>, <<Plain(T_STMT)>>,
      <<Plain(T_GSTMT)>>, <<Plain(T_COMMENT)>>, <<Plain(F_REGISTRY)>>,
      <<Plain(F_PLAIN)>>, <<Plain(T_BAD)>> }

RECURSIVE Flatten(_)
Flatten(ss) == IF ss = <<>> THEN <<>> ELSE Head(ss) \o Flatten(Tail(ss))

SegSeqs == UNION {[1..n -> Segments] : n \in 0..MaxSegs}

\* a text without final newline cannot end in an empty line
WellFormed(x) == x.nl \/ x.lines[Len(x.lines)] # BLANK

\* the file texts a run may start from
InputTexts ==
    {EmptyText} \cup
    { x \in [lines : {Flatten(ss) : ss \in SegSeqs \ {<<>>}}, nl : BOOLEAN] :
        WellFormed(x) }

ThePath == "a.py"

NoEnv ==
    [git |-> "FileNotFoundError", remote |-> <<>>, cwd |-> "scratch", cwd_gone |-> FALSE,
     registry |-> "missing", repos |-> EmptyMapping]

\* conform_file(path, footer) called directly, repeatedly, on one file
Init ==
    /\ fs \in [{ThePath} -> [text : InputTexts, fault : Faults]]
    /\ footer \in Footers
    /\ log = <<>>
    /\ argv = <<>>
    /\ footer_opt = ""
    /\ env = NoEnv
    /\ pc = "idle"
    /\ idx = 0
    /\ modified = FALSE
    /\ errors = FALSE
    /\ exit_code = -1
    /\ attempts = <<>>
    /\ git_queries = 0
    /\ registry_loads = 0
    /\ repo_name = ""
    /\ ret = NotCalled
    /\ strict = FALSE
    /\ all_valid = TRUE

LogEntry(p, r) ==
    [path |-> p, before |-> fs[p].text, after |-> r.text, ret |-> r.ret,
     wrote |-> r.wrote]

\* conform_file(path, footer)
ConformFile ==
    /\ pc = "idle"
    /\ Len(log) < MaxCalls
    /\ \E p \in DOMAIN fs :
         LET r == conform_file(fs[p], footer)
         IN  /\ fs' = [fs EXCEPT ![p].text = r.text]
             /\ log' = Append(log, LogEntry(p, r))
    /\ UNCHANGED <<footer, mainVars>>

Next == ConformFile

Spec == Init /\ [][Next]_vars

\* ------------------------------------------------------------------------
\* main: one run of the command line entry point over a batch of paths
\* ------------------------------------------------------------------------

\* at most MaxArgs file name arguments
MaxArgs == 3

AllPaths == {"a.py", "b.py", "notes.txt"}

\* Path.suffix
Suffix(p) == IF p = "notes.txt" THEN ".txt" ELSE ".py"

RegistryData == [x \in {"pyvider"} |-> F_REGISTRY]

\* what the run finds around it: the origin remote, the working directory,
\* the registry file
Envs ==
    { [git |-> "ok", remote |-> URL_HTTPS, cwd |-> "scratch", cwd_gone |-> FALSE,
       registry |-> "ok", repos |-> RegistryData],
      [git |-> "CalledProcessError", remote |-> <<>>, cwd |-> "scratch", cwd_gone |-> FALSE,
       registry |-> "ok", repos |-> RegistryData],
      [git |-> "ok", remote |-> <<>>, cwd |-> "pyvider", cwd_gone |-> FALSE,
       registry |-> "corrupt", repos |-> RegistryData],
      [git |-> "ok", remote |-> URL_SSH, cwd |-> "pyvider", cwd_gone |-> FALSE,
       registry |-> "missing", repos |-> RegistryData],
      [git |-> "ok", remote |-> URL_HTTPS, cwd |-> "scratch", cwd_gone |-> FALSE,
       registry |-> "array", repos |-> RegistryData] }

\* a text an earlier run with footer f left behind
Conformant(f) == final_content(<<Plain(T_STMT)>>, f)

MainTexts ==
    {EmptyText, [lines |-> <<Plain(T_STMT)>>, nl |-> TRUE],
     Conformant(F_DEFAULT), Conformant(F_REGISTRY)}

MainFaults == {"none", "read", "open"}

PyFiles == [text : MainTexts, fault : MainFaults]
TxtFiles == {[text |-> [lines |-> <<Plain(T_DOC)>>, nl |-> FALSE], fault |-> "none"]}

\* the file systems a run may find: every path is present or missing
FileSystems ==
    UNION { { f \in [D -> PyFiles \cup TxtFiles] :
                \A q \in D : (Suffix(q) = ".py") = (f[q] \in PyFiles) } :
            D \in SUBSET AllPaths }

ArgLists == UNION {[1..n -> AllPaths] : n \in 0..MaxArgs}

InitMain ==
    /\ fs \in FileSystems
    /\ argv \in ArgLists
    /\ \/ footer_opt = "" /\ env \in Envs
       \/ footer_opt = F_PLAIN /\ env = NoEnv
    /\ footer = ""
    /\ log = <<>>
    /\ pc = "start"
    /\ idx = 0
    /\ modified = FALSE
    /\ errors = FALSE
    /\ exit_code = -1
    /\ attempts = <<>>
    /\ git_queries = 0
    /\ registry_loads = 0
    /\ repo_name = ""
    /\ ret = NotCalled
    /\ strict = FALSE
    /\ all_valid = TRUE

\* what a later query of the same repository may find: the same, or a
\* query that runs into the timeout
LaterQuery(e) == {e, [e EXCEPT !.git = "TimeoutExpired"]}

\* detection runs although the footer is given
choose_footer_detect_anyway(opt, e, e2) ==
    LET f == get_footer_for_current_repo(e)
    IN  [footer |-> IF opt # "" THEN opt ELSE f.footer, repo_name |-> "",
         raised |-> FALSE, git |-> f.git, loads |-> f.loads]

\* lines 334-341: the footer in use, the repository name reported, whether
\* an exception leaves main, and how often git was run and the registry
\* loaded.  e is what get_footer_for_current_repo finds, e2 what the
\* detect_repo_name call of line 339 finds.
choose_footer(opt, e, e2) ==
    IF opt # ""
    THEN [footer |-> opt, repo_name |-> "", raised |-> FALSE, git |-> 0, loads |-> 0]
    ELSE LET f == get_footer_for_current_repo(e)
             d == detect_repo_name(e2)
         IN  IF f.raised
             THEN [footer |-> "", repo_name |-> "", raised |-> TRUE, git |-> f.git,
                   loads |-> f.loads]
             ELSE [footer |-> f.footer, repo_name |-> d.name, raised |-> d.raised,
                   git |-> f.git + 1, loads |-> f.loads]

\* lines 334-349: choose the footer; return 0 when no file was named
MainStart ==
    /\ pc = "start"
    /\ \E e2 \in LaterQuery(env) :
         LET c == choose_footer(footer_opt, env, e2)
         IN  /\ footer' = c.footer
             /\ repo_name' = c.repo_name
             /\ git_queries' = c.git
             /\ registry_loads' = c.loads
             /\ IF c.raised
                THEN pc' = "raised" /\ exit_code' = exit_code /\ idx' = idx
                ELSE IF argv = <<>>
                THEN pc' = "done" /\ exit_code' = 0 /\ idx' = idx
                ELSE pc' = "loop" /\ exit_code' = exit_code /\ idx' = 1
    /\ modified' = FALSE
    /\ errors' = FALSE
    /\ UNCHANGED <<checkVars, fs, log, argv, footer_opt, env, attempts, ret>>

\* the loop ends at the first file that failed
next_file_stop_at_failure(i, failed) == IF failed THEN Len(argv) + 1 ELSE i + 1

\* the for statement of line 351: every path of continue, and the except
\* clause, lead to the next file name
next_file(i, failed) == i + 1

\* lines 351-371: one iteration of the loop over args.filenames
MainFile ==
    /\ pc = "loop"
    /\ idx <= Len(argv)
    /\ LET filepath == argv[idx]
       IN  IF filepath \notin DOMAIN fs
           THEN /\ errors' = TRUE
                /\ attempts' = Append(attempts, [path |-> filepath, outcome |-> "notfound"])
                /\ UNCHANGED <<fs, log, modified>>
           ELSE IF Suffix(filepath) # ".py"
           THEN /\ attempts' = Append(attempts, [path |-> filepath, outcome |-> "skipped"])
                /\ UNCHANGED <<fs, log, modified, errors>>
           ELSE LET r == conform_file(fs[filepath], footer)
                IN  /\ fs' = [fs EXCEPT ![filepath].text = r.text]
                    /\ log' = Append(log, LogEntry(filepath, r))
                    /\ modified' = (modified \/ r.ret = "True")
                    /\ errors' = (errors \/ r.ret = "raise")
                    /\ attempts' = Append(attempts,
                          [path |-> filepath,
                           outcome |-> CASE r.ret = "True" -> "fixed"
                                         [] r.ret = "False" -> "ok"
                                         [] OTHER -> "error"])
    /\ idx' = next_file(idx, errors')
    /\ UNCHANGED <<checkVars, footer, argv, footer_opt, env, pc, exit_code, detectVars>>

\* a modification alone does not fail the run
exit_status_errors_only(errs, mod) == IF errs THEN 1 ELSE 0

\* lines 373-380
exit_status(errs, mod) == IF errs THEN 1 ELSE IF mod THEN 1 ELSE 0

MainReturn ==
    /\ pc = "loop"
    /\ idx > Len(argv)
    /\ exit_code' = exit_status(errors, modified)
    /\ pc' = "done"
    /\ UNCHANGED <<checkVars, fs, footer, log, argv, footer_opt, env, idx, modified, errors,
                   attempts, detectVars>>

NextMain == MainStart \/ MainFile \/ MainReturn

SpecMain == InitMain /\ [][NextMain]_vars

\* ------------------------------------------------------------------------
\* The auto-detection functions called on their own
\* ------------------------------------------------------------------------

\* what git prints is at most MaxUrl tokens long
MaxUrl == 4

UrlTokens == {"/", "pyvider", ".git", "\n"}

Stdouts == UNION {[1..n -> UrlTokens] : n \in 0..MaxUrl}

\* what a call may find around it; git prints something only when it succeeds
FooterEnvs ==
    { e \in [git : GitOutcomes, remote : Stdouts, cwd : {"scratch", "pyvider"},
             cwd_gone : BOOLEAN, registry : RegistryShapes, repos : {RegistryData}] :
        e.git # "ok" => e.remote = <<>> }

InitFooter ==
    /\ env \in FooterEnvs
    /\ fs = <<>>
    /\ footer = ""
    /\ log = <<>>
    /\ argv = <<>>
    /\ footer_opt = ""
    /\ pc = "idle"
    /\ idx = 0
    /\ modified = FALSE
    /\ errors = FALSE
    /\ exit_code = -1
    /\ attempts = <<>>
    /\ git_queries = 0
    /\ registry_loads = 0
    /\ repo_name = ""
    /\ ret = NotCalled
    /\ strict = FALSE
    /\ all_valid = TRUE

\* detect_repo_name()
DetectRepoName ==
    /\ ret = NotCalled
    /\ ret' = [fn |-> "detect_repo_name", r |-> detect_repo_name(env)]
    /\ git_queries' = git_queries + 1
    /\ UNCHANGED <<checkVars, fs, footer, log, argv, footer_opt, env, pc, idx, modified, errors,
                   exit_code, attempts, registry_loads, repo_name>>

\* load_footer_registry()
LoadFooterRegistry ==
    /\ ret = NotCalled
    /\ ret' = [fn |-> "load_footer_registry", r |-> load_footer_registry(env)]
    /\ registry_loads' = registry_loads + 1
    /\ UNCHANGED <<checkVars, fs, footer, log, argv, footer_opt, env, pc, idx, modified, errors,
                   exit_code, attempts, git_queries, repo_name>>

\* get_footer_for_current_repo()
GetFooterForCurrentRepo ==
    /\ ret = NotCalled
    /\ LET r == get_footer_for_current_repo(env)
       IN  /\ ret' = [fn |-> "get_footer_for_current_repo", r |-> r]
           /\ git_queries' = git_queries + r.git
           /\ registry_loads' = registry_loads + r.loads
    /\ UNCHANGED <<checkVars, fs, footer, log, argv, footer_opt, env, pc, idx, modified, errors,
                   exit_code, attempts, repo_name>>

NextFooter == DetectRepoName \/ LoadFooterRegistry \/ GetFooterForCurrentRepo

SpecFooter == InitFooter /\ [][NextFooter]_vars

\* ------------------------------------------------------------------------
\* find_module_docstring_and_body_start called on its own
\* ------------------------------------------------------------------------

InitParse ==
    /\ fs \in [{ThePath} -> [text : InputTexts, fault : {"none"}]]
    /\ footer = ""
    /\ log = <<>>
    /\ argv = <<>>
    /\ footer_opt = ""
    /\ env = NoEnv
    /\ pc = "idle"
    /\ idx = 0
    /\ modified = FALSE
    /\ errors = FALSE
    /\ exit_code = -1
    /\ attempts = <<>>
    /\ git_queries = 0
    /\ registry_loads = 0
    /\ repo_name = ""
    /\ ret = NotCalled
    /\ strict = FALSE
    /\ all_valid = TRUE

\* find_module_docstring_and_body_start(content)
FindModuleDocstring ==
    /\ ret = NotCalled
    /\ ret' = [fn |-> "find_module_docstring_and_body_start",
               r |-> find_module_docstring_and_body_start(fs[ThePath].text.lines)]
    /\ UNCHANGED <<checkVars, fs, footer, log, argv, footer_opt, env, pc, idx, modified, errors,
                   exit_code, attempts, git_queries, registry_loads, repo_name>>

NextParse == FindModuleDocstring

SpecParse == InitParse /\ [][NextParse]_vars

\* ------------------------------------------------------------------------
\* config_check: validation of pyproject.toml (src/src/provide/cicd/
\* config_check.py)
\* ------------------------------------------------------------------------

\* A parsed TOML document is a function from keys to values; a table is a
\* function again.  dict.get(key, {}) on it:
GetTable(d, k) == IF k \in DOMAIN d THEN d[k] ELSE EmptyMapping

\* dict.get(key) != expected
Differs(d, k, expected) == k \notin DOMAIN d \/ d[k] # expected

CANONICAL_RUFF ==
    ("line-length" :> 111) @@ ("indent-width" :> 4) @@ ("target-version" :> "py311")
CANONICAL_RUFF_KEYS == <<"line-length", "indent-width", "target-version">>

CANONICAL_RUFF_LINT_SELECT ==
    {"E", "F", "W", "I", "UP", "ANN", "B", "C90", "SIM", "PTH", "RUF"}
CANONICAL_RUFF_LINT_IGNORE == {"ANN401", "B008", "E501"}

CANONICAL_RUFF_FORMAT ==
    ("quote-style" :> "double") @@ ("indent-style" :> "space")
        @@ ("skip-magic-trailing-comma" :> FALSE) @@ ("line-ending" :> "auto")
CANONICAL_RUFF_FORMAT_KEYS ==
    <<"quote-style", "indent-style", "skip-magic-trailing-comma", "line-ending">>

CANONICAL_MYPY ==
    ("python_version" :> "3.11") @@ ("strict" :> TRUE) @@ ("pretty" :> TRUE)
        @@ ("show_error_codes" :> TRUE) @@ ("show_column_numbers" :> TRUE)
        @@ ("warn_unused_ignores" :> TRUE) @@ ("warn_unused_configs" :> TRUE)
CANONICAL_MYPY_KEYS ==
    <<"python_version", "strict", "pretty", "show_error_codes", "show_column_numbers",
      "warn_unused_ignores", "warn_unused_configs">>

REQUIRED_PYTEST_SETTINGS ==
    ("log_cli" :> TRUE) @@ ("testpaths" :> <<"tests">>)
        @@ ("python_files" :> <<"test_*.py", "*_test.py">>)
REQUIRED_PYTEST_KEYS == <<"log_cli", "testpaths", "python_files">>

\* one message per key of `keys` whose value in `table` is not the expected
KeyMessages(section, table, keys, expected) ==
    LET wrong == SelectSeq(keys, LAMBDA k : Differs(table, k, expected[k]))
    IN  [i \in 1..Len(wrong) |-> <<section, wrong[i]>>]

\* set(list) of the value under k, [] when absent
SetOf(d, k) == IF k \in DOMAIN d THEN d[k] ELSE {}

check_ruff_config(config) ==
    LET ruff == GetTable(GetTable(config, "tool"), "ruff")
        lint == GetTable(ruff, "lint")
        fmt == GetTable(ruff, "format")
    IN  KeyMessages("tool.ruff", ruff, CANONICAL_RUFF_KEYS, CANONICAL_RUFF)
        \o (IF SetOf(lint, "select") # CANONICAL_RUFF_LINT_SELECT
            THEN << <<"tool.ruff.lint", "select">> >> ELSE <<>>)
        \o (IF SetOf(lint, "ignore") # CANONICAL_RUFF_LINT_IGNORE
            THEN << <<"tool.ruff.lint", "ignore">> >> ELSE <<>>)
        \o KeyMessages("tool.ruff.format", fmt, CANONICAL_RUFF_FORMAT_KEYS,
                       CANONICAL_RUFF_FORMAT)

check_mypy_config(config) ==
    KeyMessages("tool.mypy", GetTable(GetTable(config, "tool"), "mypy"),
                CANONICAL_MYPY_KEYS, CANONICAL_MYPY)

check_pytest_config(config) ==
    KeyMessages("tool.pytest.ini_options",
                GetTable(GetTable(GetTable(config, "tool"), "pytest"), "ini_options"),
                REQUIRED_PYTEST_KEYS, REQUIRED_PYTEST_SETTINGS)

\* requires_python.startswith(">=3.11") over the values the documents use
StartsWithMinimumPython(v) == v \in {">=3.11", ">=3.11,<4.0"}

check_project_metadata(config) ==
    LET project == GetTable(config, "project")
        requires_python == IF "requires-python" \in DOMAIN project
                           THEN project["requires-python"] ELSE ""
    IN  (IF Differs(project, "license", "Apache-2.0")
         THEN << <<"project", "license">> >> ELSE <<>>)
        \o (IF ~StartsWithMinimumPython(requires_python)
            THEN << <<"project", "requires-python">> >> ELSE <<>>)

\* f is the file: f.parse tells how tomllib.load ends ("ok", "OSError",
\* "TOMLDecodeError"), f.config is the document.  The result is the pair
\* (errors, warnings).
validate_pyproject(f) ==
    IF f.parse # "ok"
    THEN [errors |-> << <<"parse", f.parse>> >>, warnings |-> <<>>]
    ELSE [errors |-> check_ruff_config(f.config) \o check_mypy_config(f.config)
                     \o check_pytest_config(f.config),
          warnings |-> check_project_metadata(f.config)]

\* warnings fail the file whether --strict is given or not
validate_file_warnings_fail(files, filepath, strict_arg) ==
    IF filepath \notin DOMAIN files
    THEN FALSE
    ELSE LET v == validate_pyproject(files[filepath])
         IN  v.errors = <<>> /\ v.warnings = <<>>

\* _validate_file(filepath, strict) on the files `files`
validate_file(files, filepath, strict_arg) ==
    IF filepath \notin DOMAIN files
    THEN FALSE
    ELSE LET v == validate_pyproject(files[filepath])
         IN  IF v.errors # <<>> THEN FALSE
             ELSE IF v.warnings # <<>> /\ strict_arg THEN FALSE
             ELSE TRUE

\* the documents of the model
RuffCanonical ==
    CANONICAL_RUFF
        @@ ("lint" :> (("select" :> CANONICAL_RUFF_LINT_SELECT)
                          @@ ("ignore" :> CANONICAL_RUFF_LINT_IGNORE)))
        @@ ("format" :> CANONICAL_RUFF_FORMAT)
ToolCanonical ==
    ("ruff" :> RuffCanonical) @@ ("mypy" :> CANONICAL_MYPY)
        @@ ("pytest" :> ("ini_options" :> REQUIRED_PYTEST_SETTINGS))
ProjectCanonical == ("license" :> "Apache-2.0") @@ ("requires-python" :> ">=3.11,<4.0")

DocValid == ("tool" :> ToolCanonical) @@ ("project" :> ProjectCanonical)
\* warnings only: no license, an older Python
DocNoLicense == ("tool" :> ToolCanonical) @@ ("project" :> ("requires-python" :> ">=3.11"))
DocOldPython ==
    ("tool" :> ToolCanonical)
        @@ ("project" :> (("license" :> "Apache-2.0") @@ ("requires-python" :> ">=3.10")))
\* errors: another line length, no mypy table, a shorter select list
DocLineLength ==
    ("tool" :> (("ruff" :> (("line-length" :> 88) @@ RuffCanonical))
                   @@ ("mypy" :> CANONICAL_MYPY)
                   @@ ("pytest" :> ("ini_options" :> REQUIRED_PYTEST_SETTINGS))))
        @@ ("project" :> ProjectCanonical)
DocNoMypy ==
    ("tool" :> (("ruff" :> RuffCanonical)
                   @@ ("pytest" :> ("ini_options" :> REQUIRED_PYTEST_SETTINGS))))
        @@ ("project" :> ProjectCanonical)
\* errors and warnings: an empty document
DocEmpty == EmptyMapping

Documents == {DocValid, DocNoLicense, DocOldPython, DocLineLength, DocNoMypy, DocEmpty}

CheckFiles ==
    [parse : {"ok"}, config : Documents]
        \cup [parse : {"OSError", "TOMLDecodeError"}, config : {DocEmpty}]

CheckPaths == {"pyproject.toml", "sub/pyproject.toml", "setup.cfg"}

\* Path.name
Name(p) == IF p = "setup.cfg" THEN "setup.cfg" ELSE "pyproject.toml"

InitCheck ==
    /\ fs \in UNION {[D -> CheckFiles] : D \in SUBSET CheckPaths}
    /\ argv \in UNION {[1..n -> CheckPaths] : n \in 0..MaxArgs}
    /\ strict \in BOOLEAN
    /\ all_valid = TRUE
    /\ pc = "start"
    /\ idx = 0
    /\ exit_code = -1
    /\ attempts = <<>>
    /\ footer = ""
    /\ log = <<>>
    /\ footer_opt = ""
    /\ env = NoEnv
    /\ modified = FALSE
    /\ errors = FALSE
    /\ git_queries = 0
    /\ registry_loads = 0
    /\ repo_name = ""
    /\ ret = NotCalled

\* config_check.main, lines 276-282: return 0 when no file was named
CheckStart ==
    /\ pc = "start"
    /\ IF argv = <<>>
       THEN pc' = "done" /\ exit_code' = 0 /\ idx' = idx
       ELSE pc' = "loop" /\ exit_code' = exit_code /\ idx' = 1
    /\ all_valid' = TRUE
    /\ UNCHANGED <<fs, footer, log, argv, footer_opt, env, modified, errors, attempts,
                   detectVars, strict>>

\* config_check.main, lines 283-290: one iteration of the loop
CheckFile ==
    /\ pc = "loop"
    /\ idx <= Len(argv)
    /\ LET filepath == argv[idx]
       IN  IF Name(filepath) # "pyproject.toml"
           THEN /\ attempts' = Append(attempts, [path |-> filepath, outcome |-> "skipped"])
                /\ all_valid' = all_valid
           ELSE IF ~validate_file(fs, filepath, strict)
           THEN /\ attempts' = Append(attempts, [path |-> filepath, outcome |-> "invalid"])
                /\ all_valid' = FALSE
           ELSE /\ attempts' = Append(attempts, [path |-> filepath, outcome |-> "valid"])
                /\ all_valid' = all_valid
    /\ idx' = idx + 1
    /\ UNCHANGED <<fs, footer, log, argv, footer_opt, env, pc, modified, errors, exit_code,
                   detectVars, strict>>

\* config_check.main, line 292
CheckReturn ==
    /\ pc = "loop"
    /\ idx > Len(argv)
    /\ exit_code' = IF all_valid THEN 0 ELSE 1
    /\ pc' = "done"
    /\ UNCHANGED <<fs, footer, log, argv, footer_opt, env, idx, modified, errors, attempts,
                   detectVars, strict, all_valid>>

NextCheck == CheckStart \/ CheckFile \/ CheckReturn

SpecCheck == InitCheck /\ [][NextCheck]_vars

\* ------------------------------------------------------------------------
\* _clean_header_lines and _remove_footer_emojis called on their own
\* (src/src/provide/cicd/conform.py, lines 169-225).  The argument is the
\* text held in fs[ThePath]; ret records the call.
\* ------------------------------------------------------------------------

InitLines ==
    /\ fs \in [{ThePath} -> [text : InputTexts, fault : {"none"}]]
    /\ footer = ""
    /\ log = <<>>
    /\ argv = <<>>
    /\ footer_opt = ""
    /\ env = NoEnv
    /\ pc = "idle"
    /\ idx = 0
    /\ modified = FALSE
    /\ errors = FALSE
    /\ exit_code = -1
    /\ attempts = <<>>
    /\ git_queries = 0
    /\ registry_loads = 0
    /\ repo_name = ""
    /\ ret = NotCalled
    /\ strict = FALSE
    /\ all_valid = TRUE

\* _clean_header_lines(lines)
CleanHeaderLines ==
    /\ ret = NotCalled
    /\ ret' = [fn |-> "_clean_header_lines", arg |-> fs[ThePath].text.lines,
               r |-> _clean_header_lines(fs[ThePath].text.lines), again |-> FALSE]
    /\ UNCHANGED <<checkVars, fs, footer, log, argv, footer_opt, env, pc, idx, modified, errors,
                   exit_code, attempts, git_queries, registry_loads, repo_name>>

\* _clean_header_lines applied to the lines a first call returned
CleanHeaderLinesAgain ==
    /\ ret # NotCalled
    /\ ret.fn = "_clean_header_lines"
    /\ ~ret.again
    /\ ret' = [fn |-> "_clean_header_lines", arg |-> ret.r,
               r |-> _clean_header_lines(ret.r), again |-> TRUE]
    /\ UNCHANGED <<checkVars, fs, footer, log, argv, footer_opt, env, pc, idx, modified, errors,
                   exit_code, attempts, git_queries, registry_loads, repo_name>>

\* _remove_footer_emojis(body_content); the body is the text, or the text
\* followed by a last line that ends in white space
RemoveFooterEmojis ==
    /\ ret = NotCalled
    /\ \E last \in {<<>>, <<Plain(HEADER_LIBRARY)>>} :
         LET body_content == fs[ThePath].text.lines \o last
         IN  ret' = [fn |-> "_remove_footer_emojis", arg |-> body_content,
                     r |-> _remove_footer_emojis(body_content)]
    /\ UNCHANGED <<checkVars, fs, footer, log, argv, footer_opt, env, pc, idx, modified, errors,
                   exit_code, attempts, git_queries, registry_loads, repo_name>>

NextLines == CleanHeaderLines \/ CleanHeaderLinesAgain \/ RemoveFooterEmojis

SpecLines == InitLines /\ [][NextLines]_vars

\* ------------------------------------------------------------------------
\* Properties of conform_file
\* ------------------------------------------------------------------------

\* the calls that met no I/O fault
FaultFree(k) == fs[log[k].path].fault = "none"

CountLine(ls, l) == Cardinality({k \in 1..Len(ls) : ls[k] = l})

\* C1: a second conform_file call on the same path returns False and leaves
\* the file byte-identical to what the first call left.
C1_Idempotent ==
    \A k \in 2..Len(log) :
        (FaultFree(k) /\ log[k].path = log[k - 1].path)
            => (log[k].ret = "False" /\ log[k].after = log[k - 1].after)

\* C2: after conform_file the file contains the footer line exactly once,
\* for every footer, also when the input already ends with that footer.
C2_FooterExactlyOnce ==
    \A k \in 1..Len(log) :
        FaultFree(k) => CountLine(log[k].after.lines, Plain(footer)) = 1

\* the lines the code takes as the body of an input text
InputBody(ls) ==
    LET cleaned_lines == _clean_header_lines(ls)
    IN  SubSeq(cleaned_lines, find_module_docstring_and_body_start(cleaned_lines).start,
               Len(cleaned_lines))

\* the catalog glyphs borne by the lines of ls
GlyphsIn(ls) == UNION {GlyphsOf(ls[k][2]) \cap FOOTER_EMOJIS : k \in 1..Len(ls)}

\* the lines of ls other than the footer line f
Besides(ls, f) == SelectSeq(ls, LAMBDA l : l # Plain(f))

\* C3: when the body of the input bears stale footer glyphs, the output holds
\* the new footer exactly once and none of the old glyphs anywhere besides
\* that footer line.
C3_FooterReplaced ==
    \A k \in 1..Len(log) :
        (FaultFree(k) /\ log[k].before.lines # <<>>
           /\ GlyphsIn(InputBody(log[k].before.lines)) # {})
            => /\ CountLine(log[k].after.lines, Plain(footer)) = 1
               /\ GlyphsIn(Besides(log[k].after.lines, footer))
                    \cap GlyphsIn(InputBody(log[k].before.lines)) = {}

\* C4: an input holding the copyright block N >= 1 times comes out with
\* exactly one copy of each of the three block lines.
C4_HeaderDeduplicated ==
    \A k \in 1..Len(log) :
        (FaultFree(k) /\ CountLine(log[k].before.lines, SPDX_BLOCK[1]) >= 1)
            => \A j \in 1..3 : CountLine(log[k].after.lines, SPDX_BLOCK[j]) = 1

\* a fault-free call on a text with the block twice or more, among
\* placeholder docstrings
C4_Witness ==
    \E k \in 1..Len(log) :
        /\ FaultFree(k)
        /\ CountLine(log[k].before.lines, SPDX_BLOCK[1]) >= 2
        /\ CountLine(log[k].before.lines, PLACEHOLDER_DOCSTRING[1]) >= 1
        /\ log[k].ret = "True"

ShebangLines(ls) == {k \in 1..Len(ls) : StartsWithShebang(ls[k])}

Occurrences(ts, ls) ==
    {k \in 1..(Len(ls) + 1 - Len(ts)) : \A j \in 1..Len(ts) : ls[k + j - 1][2] = ts[j]}

\* the module docstring Python sees in a text
DocstringOf(ls) == find_module_docstring_and_body_start(ls).doc

\* C6: a real module docstring of the input appears exactly once in the output.
C6_DocstringPreserved ==
    \A k \in 1..Len(log) :
        LET d == DocstringOf(log[k].before.lines)
        IN  (FaultFree(k) /\ d.has /\ d.val # <<>> /\ d.val # <<T_TODO>>
               /\ Cardinality(Occurrences(d.val, log[k].before.lines)) = 1)
                => Cardinality(Occurrences(d.val, log[k].after.lines)) = 1

\* C7: an empty file becomes the bare comment marker, the block, a blank line,
\* the placeholder docstring, a blank line and the footer; True is returned.
C7_EmptyFile ==
    \A k \in 1..Len(log) :
        (FaultFree(k) /\ log[k].before = [lines |-> <<>>, nl |-> TRUE])
            => /\ log[k].ret = "True"
               /\ log[k].after =
                    [lines |-> << <<FALSE, "# ", FALSE>>,
                                  <<FALSE, T_SPDX1, FALSE>>,
                                  <<FALSE, T_SPDX2, FALSE>>,
                                  <<FALSE, "#", FALSE>>,
                                  <<FALSE, "", FALSE>>,
                                  <<TRUE, "TODO: Add module docstring.", TRUE>>,
                                  <<FALSE, "", FALSE>>,
                                  <<FALSE, footer, FALSE>> >>,
                     nl |-> TRUE]

\* a fault-free call on the empty file
C7_Witness ==
    \E k \in 1..Len(log) :
        FaultFree(k) /\ log[k].before.lines = <<>> /\ log[k].wrote

\* C9: a failed write makes conform_file return False without raising and
\* leaves the file as it was, for every input, the empty file included.
C9_WriteFailureHandled ==
    \A k \in 1..Len(log) :
        (log[k].wrote /\ fs[log[k].path].fault \in {"open", "data"})
            => (log[k].ret = "False" /\ log[k].after = log[k].before)

\* ------------------------------------------------------------------------
\* Properties of main
\* ------------------------------------------------------------------------

\* C8: a file that cannot be read makes conform_file return False without
\* raising and without writing, and main goes on to attempt every path.
C8_ReadFailureIsolated ==
    /\ \A k \in 1..Len(log) :
           fs[log[k].path].fault = "read"
               => (log[k].ret = "False" /\ ~log[k].wrote
                   /\ log[k].after = log[k].before)
    /\ pc = "done"
           => (Len(attempts) = Len(argv)
               /\ \A i \in 1..Len(argv) : attempts[i].path = argv[i])

\* a finished run whose batch had an unreadable file followed by a file that
\* was then fixed
C8_Witness ==
    /\ pc = "done"
    /\ \E i \in 1..(Len(argv) - 1) :
           /\ argv[i] \in DOMAIN fs
           /\ Suffix(argv[i]) = ".py"
           /\ fs[argv[i]].fault = "read"
           /\ attempts[i].outcome = "ok"
           /\ attempts[i + 1].outcome = "fixed"

\* C10: main returns 1 when a file was modified, 0 when no file was named,
\* and 0 when every processed file was already conformant and nothing failed.
C10_ExitCode ==
    pc = "done"
        => /\ (\E k \in 1..Len(log) : log[k].ret = "True") => exit_code = 1
           /\ argv = <<>> => exit_code = 0
           /\ ( /\ \A i \in 1..Len(attempts) : attempts[i].outcome \in {"ok", "skipped"}
                /\ \A k \in 1..Len(log) :
                       FaultFree(k) /\ log[k].after = log[k].before )
                  => exit_code = 0

\* a finished run without error in which one file was already conformant
\* and another was modified
C10_Witness ==
    /\ pc = "done"
    /\ exit_code = 1
    /\ ~errors
    /\ \E i, j \in 1..Len(attempts) :
           attempts[i].outcome = "ok" /\ attempts[j].outcome = "fixed"
    /\ \A k \in 1..Len(log) : FaultFree(k)

\* the conform_file calls that met a read failure or a write failure
IoFailed(k) ==
    \/ fs[log[k].path].fault = "read"
    \/ log[k].wrote /\ fs[log[k].path].fault \in {"open", "data"}

\* C11: when a file of the batch was not found, could not be read or could
\* not be written, main returns 1, also when no file was modified.
C11_ErrorsExitNonZero ==
    pc = "done"
        => ( ( \/ \E i \in 1..Len(attempts) : attempts[i].outcome = "notfound"
               \/ \E k \in 1..Len(log) : IoFailed(k) )
             => exit_code = 1 )

AttemptedPaths == [i \in 1..Len(attempts) |-> attempts[i].path]

LoggedPaths == [k \in 1..Len(log) |-> log[k].path]

\* the paths of ps that exist and name a source file
SourcePaths(ps) == SelectSeq(ps, LAMBDA p : p \in DOMAIN fs /\ Suffix(p) = ".py")

\* C12: the paths attempted so far are the supplied paths, each once and in
\* the order supplied; conform_file was called for exactly the source files
\* among them, in that order, whatever failed before; when main returns every
\* path was attempted.
C12_BatchOrder ==
    /\ Len(attempts) <= Len(argv)
    /\ AttemptedPaths = SubSeq(argv, 1, Len(attempts))
    /\ LoggedPaths = SourcePaths(AttemptedPaths)
    /\ pc = "done" => Len(attempts) = Len(argv)

\* a finished run in which a missing path and a file whose processing raised
\* were each followed by a file that was then processed
C12_Witness ==
    /\ pc = "done"
    /\ \E i, j \in 1..(Len(attempts) - 1) :
           /\ attempts[i].outcome = "notfound"
           /\ attempts[j].outcome = "error"
           /\ attempts[j + 1].outcome \in {"fixed", "ok"}
           /\ Len(log) >= 2

\* C13: a path whose extension is not .py is neither read nor written, and
\* adds neither a modification nor an error to the exit code.
C13_NonSourceSkipped ==
    /\ \A k \in 1..Len(log) : Suffix(log[k].path) = ".py"
    /\ \A i \in 1..Len(attempts) :
           Suffix(attempts[i].path) # ".py" => attempts[i].outcome = "skipped"
    /\ (pc = "done" /\ \A i \in 1..Len(argv) : Suffix(argv[i]) # ".py")
           => exit_code = 0

C18_IdentityDerivedOnce ==
    (footer_opt = "" /\ pc \in {"loop", "done"})
        => /\ git_queries = 1
           /\ repo_name = detect_repo_name(env).name
           /\ \A k \in 1..Len(log) :
                  log[k].ret = "True"
                      => log[k].after.lines[Len(log[k].after.lines)] = Plain(footer)

\* ------------------------------------------------------------------------
\* Properties of the auto-detection functions
\* ------------------------------------------------------------------------

\* C14: load_footer_registry never raises; for a missing file and for
\* malformed data (not JSON, or JSON of another shape) it returns an empty
\* mapping and writes the warning; otherwise it returns the mapping stored
\* under "repositories".
C14_RegistryNeverRaises ==
    ret.fn = "load_footer_registry"
        => /\ ~ret.r.raised
           /\ ret.r.is_mapping
           /\ env.registry \in {"missing", "corrupt", "array", "listvalue"}
                  => (DOMAIN ret.r.registry = {} /\ ret.r.warned)
           /\ env.registry = "nokey" => DOMAIN ret.r.registry = {}
           /\ env.registry = "ok" => ret.r.registry = env.repos

\* the final path segment of what git printed, without a trailing ".git"
FinalSegment(out) ==
    LET u == rstrip(strip(out), {"/"})
        slashes == {k \in 1..Len(u) : u[k] = "/"}
        last == IF slashes = {} THEN 0 ELSE CHOOSE k \in slashes : \A j \in slashes : j <= k
        seg == SubSeq(u, last + 1, Len(u))
    IN  IF seg # <<>> /\ seg[Len(seg)] = ".git" THEN SubSeq(seg, 1, Len(seg) - 1) ELSE seg

\* C15: detect_repo_name never raises and returns a name: the final path
\* segment of the origin URL without a trailing ".git" when the query
\* succeeds and that segment is not empty, and the base name of the working
\* directory on every failure.
C15_DetectNeverRaises ==
    ret.fn = "detect_repo_name"
        => /\ ~ret.r.raised
           /\ ret.r.name # ""
           /\ IF env.git = "ok" /\ FinalSegment(env.remote) # <<>>
              THEN ret.r.name = Join(FinalSegment(env.remote))
              ELSE ret.r.name = env.cwd

\* the mapping the registry file stores
StoredRegistry(e) == IF e.registry = "ok" THEN e.repos ELSE EmptyMapping

\* C16: when the repository was identified, get_footer_for_current_repo
\* returns the footer the registry stores for it, and the default marker,
\* never an exception, when the registry stores none, also when the registry
\* could not be loaded.
C16_FooterOrDefault ==
    (ret.fn = "get_footer_for_current_repo" /\ ~detect_repo_name(env).raised)
        => /\ ~ret.r.raised
           /\ LET name == detect_repo_name(env).name
              IN  ret.r.footer = IF name \in DOMAIN StoredRegistry(env)
                                 THEN StoredRegistry(env)[name] ELSE "# <end>"

\* ------------------------------------------------------------------------
\* Properties of find_module_docstring_and_body_start
\* ------------------------------------------------------------------------

\* the top-level statements Python finds in the text parsed
ParsedInput == ast_parse(fs[ThePath].text.lines, 1, FALSE, 0, <<>>, <<>>)

FailsRun(p) ==
    \/ p \notin DOMAIN fs
    \/ validate_pyproject(fs[p]).errors # <<>>
    \/ strict /\ validate_pyproject(fs[p]).warnings # <<>>

\* C19: config_check main returns 1 if and only if some argument named
\* pyproject.toml is missing, has validation errors or, with --strict, has
\* warnings; otherwise it returns 0.  Arguments of another name are skipped.
C19_CheckExitCode ==
    /\ \A i \in 1..Len(attempts) :
           (attempts[i].outcome = "skipped") = (Name(attempts[i].path) # "pyproject.toml")
    /\ pc = "done"
           => /\ exit_code \in {0, 1}
              /\ (exit_code = 1)
                     = (\E i \in 1..Len(argv) :
                            Name(argv[i]) = "pyproject.toml" /\ FailsRun(argv[i]))

\* a finished run without --strict in which a file with errors was followed
\* by a file that has warnings only, and a file of another name was skipped
C19_Witness ==
    /\ pc = "done"
    /\ ~strict
    /\ exit_code = 1
    /\ \E i, j, k \in 1..Len(attempts) :
           /\ i < j
           /\ attempts[i].outcome = "invalid"
           /\ attempts[i].path \in DOMAIN fs
           /\ attempts[j].outcome = "valid"
           /\ validate_pyproject(fs[attempts[j].path]).warnings # <<>>
           /\ attempts[k].outcome = "skipped"

\* The content conform_file reconstructs for a file text.
Reconstructed(text, ft) ==
    IF text.lines = <<>> THEN empty_file_content(ft)
    ELSE final_content(text.lines, ft)

\* C21: conform_file returns True exactly when it wrote the file (the write
\* took place and the file holds the reconstructed content), it writes only
\* when the reconstructed content differs from the original, and when the
\* two are equal nothing is written, the file is untouched and False is
\* returned.
C21_WriteOnlyOnDifference ==
    \A k \in 1..Len(log) :
        LET e == log[k]
            rec == Reconstructed(e.before, footer)
            written == e.wrote /\ e.after = rec
        IN  /\ (e.ret = "True") <=> written
            /\ e.wrote => rec # e.before
            /\ e.after # e.before => e.wrote
            /\ (fs[e.path].fault # "read" /\ rec = e.before)
                   => (~e.wrote /\ e.ret = "False" /\ e.after = e.before)

C21_Witness ==
    /\ Len(log) = 2
    /\ FaultFree(1)
    /\ log[1].wrote /\ log[1].ret = "True" /\ log[1].after # log[1].before
    /\ ~log[2].wrote /\ log[2].ret = "False" /\ log[2].after = log[2].before
    /\ Reconstructed(log[2].before, footer) = log[2].before

\* ------------------------------------------------------------------------
\* Properties of _clean_header_lines and _remove_footer_emojis
\* ------------------------------------------------------------------------

CleanCalled == ret # NotCalled /\ ret.fn = "_clean_header_lines"

\* The kinds of line the header stripper is to remove, told by their text:
\* a line starting with "#!", a line starting with "# SPDX-", a line that is
\* "#" once stripped, the exact placeholder docstring.
DirectiveLine(l) == ~l[1] /\ l[2] \in {"#!/usr/bin/env python3", "#!/bin/sh"}

CopyrightLine(l) ==
    /\ ~l[1]
    /\ l[2] \in {"# SPDX-FileCopyrightText: Copyright (c) 2025 provide.io llc. All rights reserved.",
                 "# SPDX-License-Identifier: Apache-2.0"}

ContinuationLine(l) == l \in {<<FALSE, "#", FALSE>>, <<FALSE, "# ", FALSE>>}

PlaceholderLine(l) == l = <<TRUE, "TODO: Add module docstring.", TRUE>>

ArtifactLine(l) ==
    DirectiveLine(l) \/ CopyrightLine(l) \/ ContinuationLine(l) \/ PlaceholderLine(l)

\* C22: _clean_header_lines is idempotent, also on several consecutive header
\* blocks: applied to its own result it returns that result; and its result
\* holds no directive line, no copyright-pattern line, no bare
\* comment-continuation line and no exact placeholder-docstring line.
C22_StripperIdempotent ==
    CleanCalled =>
        /\ \A i \in 1..Len(ret.r) : ~ArtifactLine(ret.r[i])
        /\ ret.again => ret.r = ret.arg

\* a second call made on the result of a call that removed two consecutive
\* header blocks
C22_Witness ==
    /\ CleanCalled
    /\ ret.again
    /\ fs[ThePath].text.lines =
           SPDX_BLOCK \o SPDX_BLOCK \o <<Plain(T_STMT)>>
    /\ ret.arg = <<Plain(T_STMT)>>
    /\ ret.r = <<Plain(T_STMT)>>

\* C23: _clean_header_lines removes a directive line only at the very first
\* line: a line starting with "#!" at any later position is kept in the
\* cleaned lines.
C23_DirectiveOnlyAtFirstLine ==
    (CleanCalled /\ ~ret.again) =>
        /\ \A i \in 2..Len(ret.arg) :
               DirectiveLine(ret.arg[i]) => CountLine(ret.r, ret.arg[i]) >= 1
        /\ (ret.arg # <<>> /\ DirectiveLine(ret.arg[1]))
               => CountLine(ret.r, ret.arg[1]) < CountLine(ret.arg, ret.arg[1])

\* the lines of a at the indices in S, in their order
LinesAt(a, S) ==
    LET F[i \in 0..Len(a)] ==
            IF i = 0 THEN <<>>
            ELSE IF i \in S THEN Append(F[i - 1], a[i]) ELSE F[i - 1]
    IN  F[Len(a)]

\* a blank line that directly follows a removed artifact line
SwallowedBlank(a, i) == i > 1 /\ a[i] = <<FALSE, "", FALSE>> /\ ArtifactLine(a[i - 1])

\* C24: _clean_header_lines removes, after each run of removed artifact
\* lines, exactly the one blank line that directly follows the run; every
\* other blank line (a second blank after a run, a blank not directly
\* preceded by a removed line) and every non-artifact line is kept, in the
\* original order.
C24_OneBlankSwallowed ==
    CleanCalled =>
        ret.r = LinesAt(ret.arg,
                        {i \in 1..Len(ret.arg) :
                            ~ArtifactLine(ret.arg[i]) /\ ~SwallowedBlank(ret.arg, i)})

\* a header block followed by two blank lines: the first goes, the second
\* stays
C24_Witness ==
    /\ CleanCalled
    /\ ~ret.again
    /\ ret.arg = SPDX_BLOCK \o <<BLANK, BLANK>>
    /\ ret.r = <<BLANK>>

EmojisCalled == ret # NotCalled /\ ret.fn = "_remove_footer_emojis"

\* a line bearing a glyph of the footer catalog, told by its text
GlyphLine(l) ==
    l[2] \in {"ok = '<white-check-mark>'", "# <snake><plug><end>", "# <end>"}

\* the index of the last line of a that bears no glyph and is not blank, or 0
LastSolid(a) ==
    LET T == {i \in 1..Len(a) : ~GlyphLine(a[i]) /\ a[i] # <<FALSE, "", FALSE>>}
    IN  IF T = {} THEN 0 ELSE CHOOSE i \in T : \A j \in T : j <= i

CleanedLines(a) ==
    LinesAt(a, {i \in 1..Len(a) : ~ArtifactLine(a[i]) /\ ~SwallowedBlank(a, i)})

\* the lines of c that bear no glyph, up to the last one that is not blank
BodyOf(c) == LinesAt(c, {i \in 1..LastSolid(c) : ~GlyphLine(c[i])})

\* The body segment of a canonical text: the lines between the blank line
\* after the docstring (which starts at line 6 and ends at the first line
\* closed by quotes) and the blank line before the footer.
DocEnd(a) == CHOOSE j \in 6..Len(a) : a[j][3] /\ \A i \in 6..(j - 1) : ~a[i][3]

BodySegment(a) ==
    IF DocEnd(a) + 2 > Len(a) - 2 THEN <<>>
    ELSE SubSeq(a, DocEnd(a) + 2, Len(a) - 2)

\* a fault-free call on a file that is not empty
Conformed(k) == FaultFree(k) /\ log[k].before.lines # <<>>

\* the cleaned text of the file given to call k does not parse
SyntaxErrorIn(k) ==
    ~ast_parse(CleanedLines(log[k].before.lines), 1, FALSE, 0, <<>>, <<>>).ok

\* C26: for a file whose cleaned text has invalid syntax conform_file does
\* not raise; the file comes out as the canonical header, the placeholder
\* docstring, the whole cleaned text from line 1 as the body, and the footer.
C26_ParseFailureTolerated ==
    \A k \in 1..Len(log) :
        (log[k].before.lines # <<>> /\ SyntaxErrorIn(k))
            => /\ log[k].ret # "raise"
               /\ FaultFree(k) =>
                    LET a == log[k].after.lines
                        b == BodyOf(CleanedLines(log[k].before.lines))
                    IN  /\ Len(a) >= 8
                        /\ a[1] \in {<<FALSE, "#!/usr/bin/env python3", FALSE>>,
                                     <<FALSE, "# ", FALSE>>}
                        /\ SubSeq(a, 2, 7) =
                             << <<FALSE, T_SPDX1, FALSE>>, <<FALSE, T_SPDX2, FALSE>>,
                                <<FALSE, "#", FALSE>>, <<FALSE, "", FALSE>>,
                                <<TRUE, "TODO: Add module docstring.", TRUE>>,
                                <<FALSE, "", FALSE>> >>
                        /\ SubSeq(a, 8, Len(a)) =
                             (IF b = <<>> THEN <<>> ELSE b \o << <<FALSE, "", FALSE>> >>)
                             \o << <<FALSE, footer, FALSE>> >>

\* a comment, a statement that does not parse and one that does: all three
\* lines are the body
C26_Witness ==
    /\ Len(log) >= 1
    /\ FaultFree(1)
    /\ log[1].before.lines = <<Plain(T_COMMENT), Plain(T_BAD), Plain(T_STMT)>>
    /\ log[1].ret = "True"
    /\ BodySegment(log[1].after.lines) = <<Plain(T_COMMENT), Plain(T_BAD), Plain(T_STMT)>>

\* body_start of the cleaned text of the file given to call k
BodyStart(k) ==
    find_module_docstring_and_body_start(CleanedLines(log[k].before.lines)).start

\* the lines of the cleaned text at or after body_start
FromBodyStart(k) ==
    LET c == CleanedLines(log[k].before.lines)
    IN  SubSeq(c, BodyStart(k), Len(c))

\* the lines of the cleaned text before body_start
BeforeBodyStart(k) == SubSeq(CleanedLines(log[k].before.lines), 1, BodyStart(k) - 1)

\* C27: the body segment of the output is made of the lines of the cleaned
\* text at or after body_start that bear no catalog glyph, unchanged and in
\* their order, none dropped and none duplicated; only the white space at the
\* end of the body is trimmed.
C27_BodyPreserved ==
    \A k \in 1..Len(log) :
        Conformed(k) => BodySegment(log[k].after.lines) = BodyOf(FromBodyStart(k))

\* a docstring followed by a glyph line and a statement
C27_Witness ==
    /\ Len(log) >= 1
    /\ FaultFree(1)
    /\ log[1].before.lines = <<Line(TRUE, T_DOC, TRUE), Plain(T_GSTMT), Plain(T_STMT)>>
    /\ BodyStart(1) = 2
    /\ BodySegment(log[1].after.lines) = <<Plain(T_STMT)>>

\* the parts of the output of call k that do not come from the lines before
\* body_start: the header, the docstring, the body taken from body_start on,
\* the separators and the footer
OutputParts(k) ==
    LET a == log[k].after.lines
        b == BodyOf(FromBodyStart(k))
    IN  SubSeq(a, 1, 4) \o << <<FALSE, "", FALSE>> >> \o SubSeq(a, 6, DocEnd(a))
        \o << <<FALSE, "", FALSE>> >>
        \o (IF b = <<>> THEN <<>> ELSE b \o << <<FALSE, "", FALSE>> >>)
        \o << <<FALSE, footer, FALSE>> >>

\* the docstring block of the output of call k renders the module docstring
\* of the cleaned text, or is the placeholder
DocstringBlock(k) ==
    LET a == log[k].after.lines
        d == find_module_docstring_and_body_start(CleanedLines(log[k].before.lines)).doc
    IN  SubSeq(a, 6, DocEnd(a)) =
            IF d.has THEN RenderDocstring(d.val)
            ELSE << <<TRUE, "TODO: Add module docstring.", TRUE>> >>

\* C28: the lines of the cleaned text before body_start that are not the
\* module docstring (comment lines and blank lines before the first
\* statement, or between the docstring and the next statement) are
\* discarded: the output is the header, the docstring, the body taken from
\* body_start on and the footer, and holds no occurrence of such a line
\* besides those parts.
C28_LinesBeforeBodyDiscarded ==
    \A k \in 1..Len(log) :
        Conformed(k) =>
            /\ DocstringBlock(k)
            /\ log[k].after.lines = OutputParts(k)
            /\ \A i \in 1..Len(BeforeBodyStart(k)) :
                   LET l == BeforeBodyStart(k)[i]
                   IN  CountLine(log[k].after.lines, l) = CountLine(OutputParts(k), l)

\* a comment before the docstring and one between the docstring and the
\* first statement: neither is in the output
C28_Witness ==
    /\ Len(log) >= 1
    /\ FaultFree(1)
    /\ log[1].before.lines =
           <<Plain(T_COMMENT), Line(TRUE, T_DOC, TRUE), Plain(T_COMMENT)>>
    /\ BodyStart(1) = 4
    /\ CountLine(log[1].after.lines, Plain(T_COMMENT)) = 0
    /\ CountLine(log[1].after.lines, Line(TRUE, T_DOC, TRUE)) = 1

\* the kinds of artifact line removed at every position
BodyArtifactLine(l) == CopyrightLine(l) \/ ContinuationLine(l) \/ PlaceholderLine(l)

\* C29: artifact lines are removed at every position of the file: a line
\* whose stripped text is "#", starts with "# SPDX-" or is the placeholder
\* docstring never appears in the body of the output, also when it stood in
\* the middle of the code.
C29_ArtifactsRemovedEverywhere ==
    \A k \in 1..Len(log) :
        Conformed(k) =>
            \A i \in 1..Len(BodySegment(log[k].after.lines)) :
                ~BodyArtifactLine(BodySegment(log[k].after.lines)[i])

\* a header block between two statements
C29_Witness ==
    /\ Len(log) >= 1
    /\ FaultFree(1)
    /\ log[1].before.lines = <<Plain(T_STMT)>> \o SPDX_BLOCK \o <<Plain(T_STMT)>>
    /\ BodySegment(log[1].after.lines) = <<Plain(T_STMT), Plain(T_STMT)>>

====
